---- MODULE Spec2Model ----
(***************************************************************************)
(* Model of the SKOS concept autonumbering scripts                         *)
(*   src/convert-skos-concept-to-autonumber.py   (variant 1)               *)
(*   src/convert_skos_concept_to_autonumber.py   (variant 2)               *)
(* Both scripts parse a graph, walk its triples once, fill a dictionary    *)
(* from original concept URI strings to minted URIs, replace every triple  *)
(* in place (remove, then add), assert that the triple count is unchanged  *)
(* and serialize the graph.  The two variants are run side by side on the  *)
(* same input and the same enumeration of the triples.                     *)
(*                                                                         *)
(* Strings are sequences of one-character strings, so that the substring   *)
(* test, str() of an integer and string concatenation are computed.        *)
(* Iterating the graph visits the triples the graph held when the loop     *)
(* started, in an order the store chooses.                                 *)
(***************************************************************************)
EXTENDS Integers, Sequences, FiniteSets, TLC

(* ------------------------------ bounds --------------------------------- *)
\* largest number of triples of an input graph
MaxTriples == 3
\* largest size of the configured autonumber range
MaxRange == 2

(* --------------------------- configuration ----------------------------- *)
\* autonumber_range = range(1000000, ...): the first autonumber
RangeLow == 1000000
\* base_URI, shortened to the path part of "https://vrouwenthesaurus.nl/id/"
base_URI == <<"i", "d", "/">>

(* ------------------------------ strings -------------------------------- *)
Digit(d) == CASE d = 0 -> "0" [] d = 1 -> "1" [] d = 2 -> "2" [] d = 3 -> "3"
              [] d = 4 -> "4" [] d = 5 -> "5" [] d = 6 -> "6" [] d = 7 -> "7"
              [] d = 8 -> "8" [] d = 9 -> "9"

RECURSIVE ToStr(_)
\* str(n) for a natural number n
ToStr(n) == IF n < 10 THEN <<Digit(n)>> ELSE ToStr(n \div 10) \o <<Digit(n % 10)>>

\* Python's  sub in s  on strings
Contains(sub, s) ==
    \E i \in 0..(Len(s) - Len(sub)) : SubSeq(s, i + 1, i + Len(sub)) = sub

(* ------------------------------- terms --------------------------------- *)
URIRef(s) == [kind |-> "URIRef", str |-> s]
Literal(s) == [kind |-> "Literal", str |-> s]
\* the Python value False, which variant 2 can put in a triple pattern
PyFalse == [kind |-> "bool", str |-> <<>>]
\* str(term)
Str(term) == term.str

RDF_type == URIRef(<<"r", "d", "f", ":", "t", "y", "p", "e">>)
SKOS_Concept == URIRef(<<"s", "k", "o", "s", ":", "C">>)
SKOS_broader == URIRef(<<"s", "k", "o", "s", ":", "b">>)

\* the URIs and literals the input graphs are built from
ConceptA == URIRef(base_URI \o <<"a">>)
ConceptB == URIRef(base_URI \o <<"b">>)
\* a URI of the input that is spelled like the first autonumbered URI
Numbered == URIRef(base_URI \o ToStr(RangeLow))
\* a URI outside the base namespace
External == URIRef(<<"e", "x", "/", "a">>)
\* a literal whose text is the URI string of ConceptA
LiteralA == Literal(base_URI \o <<"a">>)

TypeSubjects == {ConceptA, ConceptB, Numbered, External}
LinkSubjects == {ConceptA, ConceptB, External}
LinkObjects == {ConceptA, ConceptB, Numbered, LiteralA}
TypeTriples == {<<s, RDF_type, SKOS_Concept>> : s \in TypeSubjects}
LinkTriples == {<<s, SKOS_broader, o>> : s \in LinkSubjects, o \in LinkObjects}
TripleUniverse == TypeTriples \cup LinkTriples

RECURSIVE SubsetsUpTo(_, _)
\* the subsets of S with at most n elements
SubsetsUpTo(S, n) ==
    IF n = 0 THEN {{}}
    ELSE LET smaller == SubsetsUpTo(S, n - 1)
         IN  smaller \cup {g \cup {t} : g \in smaller, t \in S}

InputGraphs == SubsetsUpTo(TripleUniverse, MaxTriples)

(* ------------------------------- state --------------------------------- *)
VARIABLES
    input,        \* the parsed graph; old_g_length is its size
    stop,         \* autonumber_range = range(RangeLow, stop)
    todo,         \* triples the for loop has still to enumerate
    visited,      \* the triples enumerated so far, in order
    before,       \* per enumerated triple, variant 1's graph when it was reached
    emitted,      \* per enumerated triple, the triple added in its place
    graph,        \* variant 1: graph
    URI_dict,     \* variant 1: URI_dict
    id_iter,      \* variant 1: next value of iter(autonumber_range)
    pc,           \* variant 1: position in the script
    output,       \* variant 1: the serialized graph, or NotWritten
    graph2,       \* variant 2: graph
    uri_dict,     \* variant 2: uri_dict
    id_iter2,     \* variant 2: next value of iter(autonumber_range)
    pc2,          \* variant 2: position in the script
    output2       \* variant 2: the serialized graph, or NotWritten

vars == <<input, stop, todo, visited, before, emitted, graph, URI_dict, id_iter,
          pc, output, graph2, uri_dict, id_iter2, pc2, output2>>

NotWritten == {<<"no file">>}
EmptyDict == [k \in {} |-> PyFalse]

\* dict.update({k: v})
DictUpdate(d, k, v) == [x \in DOMAIN d \cup {k} |-> IF x = k THEN v ELSE d[x]]
\* dict.get(k, default)
DictGet(d, k, default) == IF k \in DOMAIN d THEN d[k] ELSE default

\* old_g_length = len(graph) right after parsing
old_g_length == Cardinality(input)

Init ==
    /\ input \in InputGraphs
    /\ stop \in (RangeLow + 1)..(RangeLow + MaxRange)
    /\ todo = input
    /\ visited = <<>>
    /\ before = <<>>
    /\ emitted = <<>>
    /\ graph = input
    /\ URI_dict = EmptyDict
    /\ id_iter = RangeLow
    /\ pc = "loop"
    /\ output = NotWritten
    /\ graph2 = input
    /\ uri_dict = EmptyDict
    /\ id_iter2 = RangeLow
    /\ pc2 = "loop"
    /\ output2 = NotWritten

(* --------------------------- the loop body ----------------------------- *)
\* URIRef(base_URI + str(n))
Mint(n) == URIRef(base_URI \o ToStr(n))

\* (URIRef(str(term)), RDF.type, SKOS.Concept) in graph
TypedConcept(term, g) == <<URIRef(Str(term)), RDF_type, SKOS_Concept>> \in g

\* variant 1, line 37: the test on the subject
SubjectTest1(subj, g, d) ==
    /\ Contains(base_URI, Str(subj))
    /\ Str(subj) \notin DOMAIN d
    /\ TypedConcept(subj, g)

\* the subject test of variant 2 without the test for a key already present
SubjectTest2NoKeyTest(subj, g, d) ==
    LET first == IF Contains(base_URI, Str(subj)) THEN URIRef(Str(subj)) ELSE PyFalse
    IN  <<first, RDF_type, SKOS_Concept>> \in g

\* variant 2, line 41: the first element of the tested triple is the value of
\*   BASE_URI in subj and str_subj not in uri_dict.keys() and URIRef(str_subj)
SubjectTest2(subj, g, d) ==
    LET first == IF Contains(base_URI, Str(subj))
                 THEN IF Str(subj) \notin DOMAIN d
                      THEN URIRef(Str(subj))
                      ELSE PyFalse
                 ELSE PyFalse
    IN  <<first, RDF_type, SKOS_Concept>> \in g

\* lines 42 / 46: the test on the object, the same in both variants
ObjectTest(obj, g, d) ==
    /\ Contains(base_URI, Str(obj))
    /\ Str(obj) \notin DOMAIN d
    /\ TypedConcept(obj, g)

\* an iterator that never raises StopIteration
ExhaustedNever(it, stp) == FALSE

\* next(id_iter) on iter(range(RangeLow, stp)): the value, or StopIteration
Exhausted(it, stp) == it >= stp

\* an assignment that does not advance the iterator
AssignReuse(st, key, stp) ==
    IF st.iter >= stp
    THEN [st EXCEPT !.raised = TRUE]
    ELSE [st EXCEPT !.dict = [x \in DOMAIN st.dict \cup {key} |->
                               IF x = key THEN [kind |-> "URIRef",
                                                str |-> base_URI \o ToStr(st.iter)]
                               ELSE st.dict[x]]]

\* URI_dict.update({key : URIRef(base_URI + str(next(id_iter)))})
Assign(st, key, stp) ==
    IF Exhausted(st.iter, stp)
    THEN [st EXCEPT !.raised = TRUE]
    ELSE [st EXCEPT !.dict = DictUpdate(st.dict, key, Mint(st.iter)),
                    !.iter = st.iter + 1]

\* the triple added in the place of (subj, pred, obj)
Rewritten(t, d) == <<DictGet(d, Str(t[1]), t[1]), t[2], DictGet(d, Str(t[3]), t[3])>>

\* graph.remove(t); graph.add(Rewritten(t))
Replace(g, t, d) == (g \ {t}) \cup {Rewritten(t, d)}

\* a loop body that tests the object before the subject
LoopBody1ObjectFirst(t, g, d, it, stp) ==
    LET st0 == [graph |-> g, dict |-> d, iter |-> it, raised |-> FALSE]
        st1 == IF ObjectTest(t[3], st0.graph, st0.dict)
               THEN Assign(st0, Str(t[3]), stp) ELSE st0
        st2 == IF st1.raised THEN st1
               ELSE IF SubjectTest1(t[1], st1.graph, st1.dict)
                    THEN Assign(st1, Str(t[1]), stp) ELSE st1
    IN  IF st2.raised THEN st2
        ELSE [st2 EXCEPT !.graph = Replace(st2.graph, t, st2.dict)]

\* one iteration of the for loop of variant 1 on the triple t
LoopBody1(t, g, d, it, stp) ==
    LET st0 == [graph |-> g, dict |-> d, iter |-> it, raised |-> FALSE]
        st1 == IF SubjectTest1(t[1], st0.graph, st0.dict)
               THEN Assign(st0, Str(t[1]), stp) ELSE st0
        st2 == IF st1.raised THEN st1
               ELSE IF ObjectTest(t[3], st1.graph, st1.dict)
                    THEN Assign(st1, Str(t[3]), stp) ELSE st1
    IN  IF st2.raised THEN st2
        ELSE [st2 EXCEPT !.graph = Replace(st2.graph, t, st2.dict)]

\* one iteration of the for loop of variant 2 on the triple t
LoopBody2(t, g, d, it, stp) ==
    LET st0 == [graph |-> g, dict |-> d, iter |-> it, raised |-> FALSE]
        st1 == IF SubjectTest2(t[1], st0.graph, st0.dict)
               THEN Assign(st0, Str(t[1]), stp) ELSE st0
        st2 == IF st1.raised THEN st1
               ELSE IF ObjectTest(t[3], st1.graph, st1.dict)
                    THEN Assign(st1, Str(t[3]), stp) ELSE st1
    IN  IF st2.raised THEN st2
        ELSE [st2 EXCEPT !.graph = Replace(st2.graph, t, st2.dict)]

(* ------------------------------ actions -------------------------------- *)
\* the for loop enumerates one more triple and runs its body on it
RewriteTriple ==
    /\ pc = "loop" \/ pc2 = "loop"
    /\ \E t \in todo :
        LET r1 == LoopBody1(t, graph, URI_dict, id_iter, stop)
            r2 == LoopBody2(t, graph2, uri_dict, id_iter2, stop)
        IN  /\ todo' = todo \ {t}
            /\ IF pc = "loop"
               THEN /\ graph' = r1.graph
                    /\ URI_dict' = r1.dict
                    /\ id_iter' = r1.iter
                    /\ pc' = IF r1.raised THEN "StopIteration" ELSE "loop"
                    /\ visited' = Append(visited, t)
                    /\ before' = Append(before, graph)
                    /\ emitted' = IF r1.raised THEN emitted
                                  ELSE Append(emitted, Rewritten(t, r1.dict))
               ELSE UNCHANGED <<graph, URI_dict, id_iter, pc, visited, before, emitted>>
            /\ IF pc2 = "loop"
               THEN /\ graph2' = r2.graph
                    /\ uri_dict' = r2.dict
                    /\ id_iter2' = r2.iter
                    /\ pc2' = IF r2.raised THEN "StopIteration" ELSE "loop"
               ELSE UNCHANGED <<graph2, uri_dict, id_iter2, pc2>>
    /\ UNCHANGED <<input, stop, output, output2>>

\* the loop has enumerated every triple: assert len(graph) == old_g_length
AssertLength ==
    /\ todo = {}
    /\ pc = "loop" \/ pc2 = "loop"
    /\ pc' = IF pc # "loop" THEN pc
             ELSE IF Cardinality(graph) = old_g_length THEN "serialize"
                  ELSE "AssertionError"
    /\ pc2' = IF pc2 # "loop" THEN pc2
              ELSE IF Cardinality(graph2) = old_g_length THEN "serialize"
                   ELSE "AssertionError"
    /\ UNCHANGED <<input, stop, todo, visited, before, emitted, graph, URI_dict,
                   id_iter, output, graph2, uri_dict, id_iter2, output2>>

\* graph.serialize(...): the graph is written to the output file
Serialize ==
    /\ pc = "serialize" \/ pc2 = "serialize"
    /\ IF pc = "serialize"
       THEN output' = graph /\ pc' = "done"
       ELSE UNCHANGED <<output, pc>>
    /\ IF pc2 = "serialize"
       THEN output2' = graph2 /\ pc2' = "done"
       ELSE UNCHANGED <<output2, pc2>>
    /\ UNCHANGED <<input, stop, todo, visited, before, emitted, graph, URI_dict,
                   id_iter, graph2, uri_dict, id_iter2>>

Next == RewriteTriple \/ AssertLength \/ Serialize

Spec == Init /\ [][Next]_vars

(* ----------------------- vocabulary of the claims ---------------------- *)
InBase(term) == Contains(base_URI, Str(term))
InputTerms == {t[1] : t \in input} \cup {t[3] : t \in input}
\* eligibility of a term in the input graph
EligibleInInput(term) ==
    /\ term.kind = "URIRef"
    /\ InBase(term)
    /\ <<term, RDF_type, SKOS_Concept>> \in input
InputConcepts == {term \in InputTerms : EligibleInInput(term)}
ConceptKeys == {Str(term) : term \in InputConcepts}
RangeSize == stop - RangeLow
LoopCompleted == pc \in {"serialize", "done", "AssertionError"}
Values(d) == {d[k] : k \in DOMAIN d}
Min(S) == CHOOSE x \in S : \A y \in S : x <= y

\* positions, in the scan, at which the string k is sighted while eligible
\* against the graph of that moment: 2i-1 for the subject of the i-th
\* enumerated triple, 2i for its object
EligibleSightings(k) ==
    {2 * i - 1 : i \in {j \in 1..Len(visited) :
        /\ Str(visited[j][1]) = k
        /\ InBase(visited[j][1])
        /\ <<URIRef(k), RDF_type, SKOS_Concept>> \in before[j]}}
    \cup
    {2 * i : i \in {j \in 1..Len(visited) :
        /\ Str(visited[j][3]) = k
        /\ InBase(visited[j][3])
        /\ <<URIRef(k), RDF_type, SKOS_Concept>> \in before[j]}}
SightedStrings ==
    {Str(visited[i][1]) : i \in 1..Len(visited)} \cup
    {Str(visited[i][3]) : i \in 1..Len(visited)}
FirstSighting(k) == Min(EligibleSightings(k))

\* the example graph of the specification and its enumeration
ScenarioOrder == << <<ConceptA, RDF_type, SKOS_Concept>>,
                    <<ConceptB, SKOS_broader, ConceptA>>,
                    <<ConceptB, RDF_type, SKOS_Concept>> >>
Scenario == {ScenarioOrder[i] : i \in 1..3}

\* the repair pass of the specification applied to a finished graph
Phase2(g, d) ==
    {IF Str(t[1]) \in DOMAIN d \/ Str(t[3]) \in DOMAIN d THEN Rewritten(t, d) ELSE t
        : t \in g}

(* ------------------------------- claims -------------------------------- *)
\* C1: as long as allocation has not failed, the graph holds as many triples
\* as the input graph; no remove-and-add step merges or drops a triple.
C1_TripleCountPreserved ==
    pc # "StopIteration" => Cardinality(graph) = old_g_length

\* C2: a concept used as an object before its type triple is enumerated has,
\* once the loop has completed, every occurrence replaced by one and the same
\* new URI, and its original URI occurs nowhere in the graph.
C2_ForwardReference ==
    LoopCompleted =>
        \A c \in InputConcepts :
            (\E i, j \in 1..Len(visited) :
                /\ i < j
                /\ visited[i][3] = c
                /\ visited[j] = <<c, RDF_type, SKOS_Concept>>)
            => /\ Str(c) \in DOMAIN URI_dict
               /\ URI_dict[Str(c)] # c
               /\ \A i \in 1..Len(emitted) :
                    /\ visited[i][1] = c => emitted[i][1] = URI_dict[Str(c)]
                    /\ visited[i][3] = c => emitted[i][3] = URI_dict[Str(c)]
               /\ \A t \in graph : t[1] # c /\ t[3] # c

\* C3: a subject or object that is not eligible in the input graph appears
\* unchanged in the triple that replaces its triple, and an ineligible URI is
\* never a key of the Rename Map.
C3_IneligibleUnchanged ==
    /\ \A i \in 1..Len(emitted) :
        /\ ~EligibleInInput(visited[i][1]) => emitted[i][1] = visited[i][1]
        /\ ~EligibleInInput(visited[i][3]) => emitted[i][3] = visited[i][3]
    /\ \A term \in InputTerms :
        (term.kind = "URIRef" /\ ~EligibleInInput(term)) => Str(term) \notin DOMAIN URI_dict

\* C4: the triple that replaces an input triple has the same predicate, and
\* the same object when that object is a literal.
C4_PredicateAndLiteralKept ==
    \A i \in 1..Len(emitted) :
        /\ emitted[i][2] = visited[i][2]
        /\ visited[i][3].kind = "Literal" => emitted[i][3] = visited[i][3]

\* C5: when the loop has completed, the keys of the Rename Map are exactly
\* the URIs under the base namespace that are typed skos:Concept in the input.
C5_RenameMapComplete ==
    LoopCompleted => DOMAIN URI_dict = ConceptKeys

\* C6: with more distinct concept URIs than autonumbers the run can only end
\* in StopIteration, raised when the iterator is used up; the triple being
\* processed is left in the graph, the length assertion and the serialization
\* are never reached and nothing is written.
C6_Exhaustion ==
    Cardinality(ConceptKeys) > RangeSize =>
        /\ pc \in {"loop", "StopIteration"}
        /\ output = NotWritten
        /\ todo = {} => pc = "StopIteration"
        /\ pc = "StopIteration" =>
            /\ id_iter = stop
            /\ Len(emitted) = Len(visited) - 1
            /\ visited[Len(visited)] \in graph

C6_Witness ==
    /\ Cardinality(ConceptKeys) > RangeSize
    /\ pc = "StopIteration"
    /\ todo # {}
    /\ output = NotWritten

\* C7: the Rename Map is injective in every state.
C7_UniqueAllocation ==
    \A a, b \in DOMAIN URI_dict : a # b => URI_dict[a] # URI_dict[b]

C7_Witness ==
    /\ pc = "done"
    /\ Cardinality(DOMAIN URI_dict) >= 2

C9_Phase2NoOp ==
    LoopCompleted =>
        /\ \A t \in graph : Str(t[1]) \notin DOMAIN URI_dict /\ Str(t[3]) \notin DOMAIN URI_dict
        /\ Phase2(graph, URI_dict) = graph

\* C10: the two variants agree, step for step, on the Rename Map, the graph,
\* the iterator, the outcome and the file written.
C10_VariantsEquivalent ==
    /\ uri_dict = URI_dict
    /\ graph2 = graph
    /\ id_iter2 = id_iter
    /\ pc2 = pc
    /\ output2 = output

C10_Witness ==
    /\ pc2 = "done"
    /\ \E i, j \in 1..Len(visited) :
        /\ i < j
        /\ visited[i][1] = visited[j][1]
        /\ Str(visited[i][1]) \in DOMAIN uri_dict
    /\ \E i \in 1..Len(visited) : ~InBase(visited[i][1])
====
